---- MODULE Spec2Model ----
(***************************************************************************)
(* Model of src/routes/account.js: the account-settings routes of the      *)
(* Snapchat client.  Every route builds a parameter mapping, hands it to   *)
(* client.post together with a callback, and the callback runs when the    *)
(* transport answers.  The only shared mutable state is                    *)
(* client.currentSession.                                                  *)
(***************************************************************************)
EXTENDS Integers, Sequences, FiniteSets, TLC

VARIABLES
    currentSession,   \* client.currentSession: the cached account state
    calls,            \* one record per route invocation, in issue order
    serverFeatures,   \* feature flags the server holds (set of enabled names)
    serverOrder,      \* ids of updateFeatureSettings calls, in the order the server applied them
    lastWellFormed    \* history: best_friends of the last processed response that carried one

vars == <<currentSession, calls, serverFeatures, serverOrder, lastWellFormed>>

----------------------------------------------------------------------------
(* Bounds of the model *)

MaxCalls == 2      \* route invocations per behaviour
MaxWrap == 2       \* |w| for caller integers w * 2^31 + s
MaxSmall == 9      \* |s| for caller integers w * 2^31 + s
MaxReqKeys == 2    \* keys a settings object mentions (SpecFeatureMerge)

(* Program constants *)

MinBestFriends == 3
MaxBestFriends == 7
MaxSnapPrivacy == 1

----------------------------------------------------------------------------
(* JavaScript numbers holding integers.  A number is kept as two limbs,    *)
(* value = hi * 2^16 + lo with 0 <= lo < 2^16, so that integers outside    *)
(* the 32-bit range can be passed in and ToInt32 (the `| 0` coercion) can  *)
(* be computed as the language does: the value modulo 2^32, read as a      *)
(* signed 32-bit integer.                                                  *)

Limb == 2^16
HalfLimb == 2^15

FromInt(i) == [hi |-> i \div Limb, lo |-> i % Limb]

\* w * 2^31 + s
Big(w, s) == [hi |-> w * HalfLimb + (s \div Limb), lo |-> s % Limb]

NumLT(a, b) == a.hi < b.hi \/ (a.hi = b.hi /\ a.lo < b.lo)

\* x | 0
ToInt32(n) == (((n.hi + HalfLimb) % Limb) - HalfLimb) * Limb + n.lo

\* Math.min(a, b)
MathMin(a, b) == IF NumLT(b, a) THEN b ELSE a

WideInts == { Big(w, s) : w \in (0 - MaxWrap)..MaxWrap, s \in (0 - MaxSmall)..MaxSmall }

----------------------------------------------------------------------------
(* JavaScript values that reach the cache *)

NULL == "null"
Undefined == [t |-> "undefined", v |-> <<>>]
Arr(s) == [t |-> "array", v |-> s]

\* parsed JSON: null, or an object with a set of keys
JSNull == [t |-> "null", keys |-> {}, best_friends |-> Undefined]
JSObject(ks, bf) == [t |-> "object", keys |-> ks, best_friends |-> bf]

\* response bodies: text that is JSON or not, or raw bytes
NoBody == [kind |-> "none", json |-> JSNull, bytes |-> <<>>]
Malformed == [kind |-> "malformed", json |-> JSNull, bytes |-> <<>>]
JsonBody(j) == [kind |-> "json", json |-> j, bytes |-> <<>>]
BytesBody(b) == [kind |-> "bytes", json |-> JSNull, bytes |-> b]

FriendLists == { <<"x", "y", "z">>, <<"z", "x">> }

BestFriendsBodies ==
    {Malformed, JsonBody(JSNull), JsonBody(JSObject({"logged"}, Undefined))}
        \cup { JsonBody(JSObject({"best_friends"}, Arr(l))) : l \in FriendLists }

ByteBodies == { BytesBody(<<80, 75, 7>>), BytesBody(<<9, 80>>) }

TransportErrors == {"ECONNRESET"}

ParseError == "Snapchat.Account.updateBestFriendsCount parse error"
DecodeError == "SKBlob.decompress error"

----------------------------------------------------------------------------
(* The session cache and the feature flags *)

Username == "me"

\* the keys of constants.featureSettings, in the order the route assigns them
FeatureOrder ==
    << "frontFacingFlash", "replaySnaps", "smartFilters", "visualFilters",
       "powerSaveMode", "specialText", "swipeCashMode", "travelMode" >>

FeatureNames == { FeatureOrder[k] : k \in DOMAIN FeatureOrder }

\* the currentSession field read for each feature
SessionField ==
    [ frontFacingFlash |-> "enableFrontFacingFlash",
      replaySnaps      |-> "enableReplaySnaps",
      smartFilters     |-> "enableSmartFilters",
      visualFilters    |-> "enableVisualFilters",
      powerSaveMode    |-> "enablePowerSaveMode",
      specialText      |-> "enableSpecialText",
      swipeCashMode    |-> "enableSwipeCashMode",
      travelMode       |-> "enableTravelMode" ]

FlagFields == { SessionField[n] : n \in FeatureNames }

SessionWith(on) ==
    [ bestFriendUsernames     |-> Arr(<<"a", "b", "c">>),
      QRPath                  |-> "qr/me",
      enableFrontFacingFlash  |-> "frontFacingFlash" \in on,
      enableReplaySnaps       |-> "replaySnaps" \in on,
      enableSmartFilters      |-> "smartFilters" \in on,
      enableVisualFilters     |-> "visualFilters" \in on,
      enablePowerSaveMode     |-> "powerSaveMode" \in on,
      enableSpecialText       |-> "specialText" \in on,
      enableSwipeCashMode     |-> "swipeCashMode" \in on,
      enableTravelMode        |-> "travelMode" \in on ]

CachedOn(session) == { n \in FeatureNames : session[SessionField[n]] }

\* A settings object of string-boolean pairs: the keys given true, the keys
\* given false; every other key reads as undefined.
SettingsKeys == FeatureNames \cup {"unknownFeature"}

Settings(on, off) == [on |-> on, off |-> off]

\* settings[name] || cached
OrCached(settings, name, cached) == IF name \in settings.on THEN TRUE ELSE cached

BoolText(b) == IF b THEN "true" ELSE "false"

\* an explicit false in the settings object switches the flag off
FeaturesJSON_RequestWins(settings, session) ==
    [ k \in DOMAIN FeatureOrder |->
        [ name  |-> FeatureOrder[k],
          value |-> BoolText(IF FeatureOrder[k] \in settings.on THEN TRUE
                             ELSE IF FeatureOrder[k] \in settings.off THEN FALSE
                             ELSE session[SessionField[FeatureOrder[k]]]) ] ]

\* the features object outlives the invocation: what an earlier invocation
\* asked for is still in it
FeaturesJSON_Shared(settings, session) ==
    [ k \in DOMAIN FeatureOrder |->
        [ name  |-> FeatureOrder[k],
          value |-> BoolText(\/ FeatureOrder[k] \in settings.on
                             \/ session[SessionField[FeatureOrder[k]]]
                             \/ \E j \in DOMAIN calls :
                                   /\ calls[j].op = "updateFeatureSettings"
                                   /\ FeatureOrder[k] \in calls[j].arg.on) ] ]

\* lines 181-189 and JSON.stringify(features): one "name":literal member per
\* assignment, in assignment order
FeaturesJSON(settings, session) ==
    [ k \in DOMAIN FeatureOrder |->
        [ name  |-> FeatureOrder[k],
          value |-> BoolText(OrCached(settings, FeatureOrder[k],
                                      session[SessionField[FeatureOrder[k]]])) ] ]

\* the coercion applied before the clamp instead of after it
ClampBestFriends_CoerceFirst(number) ==
    LET n == ToInt32(number)
    IN  IF n < MinBestFriends THEN MinBestFriends
        ELSE IF n > MaxBestFriends THEN MaxBestFriends ELSE n

\* lines 33-37: the count put on the wire
ClampBestFriends(number) ==
    LET a == IF NumLT(number, FromInt(MinBestFriends)) THEN FromInt(MinBestFriends) ELSE number
        b == IF NumLT(FromInt(MaxBestFriends), a) THEN FromInt(MaxBestFriends) ELSE a
    IN  ToInt32(b)

\* line 65: the privacy level put on the wire
SnapPrivacySetting(privacy) == ToInt32(MathMin(privacy, FromInt(MaxSnapPrivacy)))

----------------------------------------------------------------------------
(* Route invocations *)

NoResp == [err |-> NULL, body |-> NoBody]

Posted(op, arg, path, params) ==
    [ op |-> op, arg |-> arg, path |-> path, params |-> params,
      stage |-> "pending", posts |-> 1, decompress |-> 0, buffer |-> <<>>,
      cbs |-> <<>>, resp |-> NoResp ]

CanCall == Len(calls) < MaxCalls

\* what a route leaves alone when it is invoked
others == <<currentSession, serverFeatures, serverOrder, lastWellFormed>>

\* lines 29-38
UpdateBestFriendsCount(number) ==
    /\ CanCall
    /\ calls' = Append(calls,
          Posted("updateBestFriendsCount", number, "account.setBestsCount",
                 [num_best_friends |-> ClampBestFriends(number), username |-> Username]))
    /\ UNCHANGED others

\* lines 61-72
UpdateSnapPrivacy(privacy) ==
    /\ CanCall
    /\ calls' = Append(calls,
          Posted("updateSnapPrivacy", privacy, "account.settings",
                 [action |-> "updatePrivacy",
                  privacySetting |-> SnapPrivacySetting(privacy),
                  username |-> Username]))
    /\ UNCHANGED others

\* lines 177-195
UpdateFeatureSettings(settings) ==
    /\ CanCall
    /\ calls' = Append(calls,
          Posted("updateFeatureSettings", settings, "update.featureSettings",
                 [settings |-> FeaturesJSON(settings, currentSession),
                  username |-> Username]))
    /\ UNCHANGED others

\* constants.stringFromStoryPrivacy
StringFromStoryPrivacy(n) ==
    CASE n = 0 -> "EVERYONE"
      [] n = 1 -> "FRIENDS"
      [] n = 2 -> "CUSTOM"
      [] OTHER -> ""

\* JSON.stringify of an array of strings: each item quoted, between brackets
StringifyList(l) ==
    [open |-> "[", items |-> [k \in DOMAIN l |-> [quoted |-> l[k]]], close |-> "]"]

NoFriends == [given |-> FALSE, list |-> <<>>]
Friends(l) == [given |-> TRUE, list |-> l]

\* lines 81-101; friends is null when the caller passes only the callback,
\* and any array, the empty one included, is truthy
UpdateStoryPrivacy(privacy, friends) ==
    LET label == StringFromStoryPrivacy(ToInt32(privacy))
    IN  /\ CanCall
        /\ calls' = Append(calls,
              Posted("updateStoryPrivacy", <<privacy, friends>>, "account.settings",
              IF friends.given
              THEN [action |-> "updateStoryPrivacy", privacySetting |-> label,
                    username |-> Username,
                    storyFriendsToBlock |-> StringifyList(friends.list)]
              ELSE [action |-> "updateStoryPrivacy", privacySetting |-> label,
                    username |-> Username]))
        /\ UNCHANGED others

\* lines 109-118
UpdateEmail(address) ==
    /\ CanCall
    /\ calls' = Append(calls,
          Posted("updateEmail", address, "account.settings",
                 [action |-> "updateEmail", email |-> address, username |-> Username]))
    /\ UNCHANGED others

\* lines 126-135
UpdateSearchableByNumber(searchable) ==
    /\ CanCall
    /\ calls' = Append(calls,
          Posted("updateSearchableByNumber", searchable, "account.settings",
                 [action |-> "updateSearchableByPhoneNumber",
                  searchable |-> searchable, username |-> Username]))
    /\ UNCHANGED others

\* lines 143-152
UpdateNotificationSoundSetting(enableSound) ==
    /\ CanCall
    /\ calls' = Append(calls,
          Posted("updateNotificationSoundSetting", enableSound, "account.settings",
                 [action |-> "updateNotificationSoundSetting",
                  notificationSoundSetting |-> IF enableSound THEN "ON" ELSE "OFF",
                  username |-> Username]))
    /\ UNCHANGED others

\* lines 161-166: handed to client.friends, which owns the request
UpdateDisplayName(displayName) ==
    /\ CanCall
    /\ calls' = Append(calls,
          [ Posted("updateDisplayName", displayName, "", [username |-> Username,
                                                          display |-> displayName])
            EXCEPT !.stage = "delegated", !.posts = 0 ])
    /\ UNCHANGED others

\* lines 202-209
DownloadSnaptag ==
    /\ CanCall
    /\ calls' = Append(calls,
          Posted("downloadSnaptag", "", "account.snaptag",
                 [image |-> currentSession.QRPath, type |-> "SVG", username |-> Username]))
    /\ UNCHANGED others

\* lines 225-232: throws before anything is posted and before cb is used
UploadAvatar(images) ==
    /\ CanCall
    /\ calls' = Append(calls,
          [ Posted("uploadAvatar", images, "", [username |-> Username])
            EXCEPT !.stage = "threw", !.posts = 0 ])
    /\ UNCHANGED others

\* lines 240-247
DownloadAvatar(username) ==
    /\ CanCall
    /\ calls' = Append(calls,
          Posted("downloadAvatar", username, "account.avatar.get",
                 [username_image |-> username, username |-> Username, size |-> "MEDIUM"]))
    /\ UNCHANGED others

\* lines 262-276
UpdateTOSAgreementStatus(snapcash, snapcashV2, square) ==
    /\ CanCall
    /\ calls' = Append(calls,
          Posted("updateTOSAgreementStatus", <<snapcash, snapcashV2, square>>, "update.user",
                 [username |-> Username,
                  agreements |-> [snapcash_new_tos_accepted |-> BoolText(snapcash),
                                  snapcash_tos_v2_accepted  |-> BoolText(snapcashV2),
                                  square_tos_accepted       |-> BoolText(square)]]))
    /\ UNCHANGED others

----------------------------------------------------------------------------
(* The transport: client.post.  A request is pending, then served (the     *)
(* server has applied it), then its callback runs once, with the response  *)
(* or with a transport error.  A transport error can also come back for a  *)
(* request that was never served, or whose response was lost.              *)

PassThroughOps ==
    { "updateSnapPrivacy", "updateStoryPrivacy", "updateEmail", "updateSearchableByNumber",
      "updateNotificationSoundSetting", "updateFeatureSettings", "updateTOSAgreementStatus" }

ResponseBodies(op) ==
    CASE op = "updateBestFriendsCount" -> BestFriendsBodies
      [] op \in {"downloadSnaptag", "downloadAvatar"} -> ByteBodies
      [] OTHER -> {JsonBody(JSObject({"logged"}, Undefined))}

\* the settings the server reads out of the JSON text
ParseFeatures(json) == { json[k].name : k \in { j \in DOMAIN json : json[j].value = "true" } }

Serve(i) ==
    /\ i \in DOMAIN calls
    /\ calls[i].stage = "pending"
    /\ calls' = [calls EXCEPT ![i].stage = "served"]
    /\ IF calls[i].op = "updateFeatureSettings"
       THEN /\ serverFeatures' = ParseFeatures(calls[i].params.settings)
            /\ serverOrder' = Append(serverOrder, i)
       ELSE UNCHANGED <<serverFeatures, serverOrder>>
    /\ UNCHANGED <<currentSession, lastWellFormed>>

\* the transport calls back call i with (err, response, body)
Arrives(i, err, body) ==
    /\ i \in DOMAIN calls
    /\ \/ /\ err = NULL
          /\ calls[i].stage = "served"
          /\ body \in ResponseBodies(calls[i].op)
       \/ /\ err \in TransportErrors
          /\ calls[i].stage \in {"pending", "served"}
          /\ body = NoBody

----------------------------------------------------------------------------
(* Callbacks *)

\* what cb is called with
CbErr(err) == [err |-> err, kind |-> "none", body |-> NoBody, bytes |-> <<>>]
CbVerbatim(err, body) == [err |-> err, kind |-> "response", body |-> body, bytes |-> <<>>]
CbBlob(kind, bytes) == [err |-> NULL, kind |-> kind, body |-> NoBody, bytes |-> bytes]

\* StringUtils.tryParseJSON: the parsed value, or a falsy value for text that
\* is not JSON
TryParseJSON(body) == IF body.kind = "json" THEN body.json ELSE JSNull

Truthy(value) == value.t = "object"

\* result['best_friends']
GetBestFriends(result) ==
    IF "best_friends" \in result.keys THEN result.best_friends ELSE Undefined

\* the transport-error branch without its return: the parse error is what the
\* caller is left with
BestFriendsResult_NoReturn(err, body, session) ==
    IF err # NULL
    THEN [session |-> session, cb |-> CbErr(ParseError)]
    ELSE LET result == TryParseJSON(body)
         IN  IF Truthy(result)
             THEN [session |-> [session EXCEPT !.bestFriendUsernames = GetBestFriends(result)],
                   cb |-> CbErr(NULL)]
             ELSE [session |-> session, cb |-> CbErr(ParseError)]

\* lines 39-52: the cache after the callback, and what cb is called with
BestFriendsResult(err, body, session) ==
    IF err # NULL
    THEN [session |-> session, cb |-> CbErr(err)]
    ELSE LET result == TryParseJSON(body)
         IN  IF Truthy(result)
             THEN [session |-> [session EXCEPT !.bestFriendUsernames = GetBestFriends(result)],
                   cb |-> CbErr(NULL)]
             ELSE [session |-> session, cb |-> CbErr(ParseError)]

WellFormed(body) ==
    body.kind = "json" /\ body.json.t = "object" /\ "best_friends" \in body.json.keys

Finished(i, err, body, cb) ==
    [calls EXCEPT ![i].stage = "done", ![i].resp = [err |-> err, body |-> body],
                  ![i].cbs = Append(@, cb)]

BestFriendsCallback(i, err, body) ==
    /\ Arrives(i, err, body)
    /\ calls[i].op = "updateBestFriendsCount"
    /\ LET r == BestFriendsResult(err, body, currentSession)
       IN  /\ currentSession' = r.session
           /\ calls' = Finished(i, err, body, r.cb)
    /\ lastWellFormed' = IF err = NULL /\ WellFormed(body) THEN body.json.best_friends
                         ELSE lastWellFormed
    /\ UNCHANGED <<serverFeatures, serverOrder>>

\* the cache refreshed from what was sent once the round trip succeeds
PassThroughCallback_Refresh(i, err, body) ==
    /\ Arrives(i, err, body)
    /\ calls[i].op \in PassThroughOps
    /\ calls' = Finished(i, err, body, CbVerbatim(err, body))
    /\ currentSession' =
          IF err = NULL /\ calls[i].op = "updateFeatureSettings"
          THEN [ f \in DOMAIN currentSession |->
                   IF f \in FlagFields
                   THEN \E n \in ParseFeatures(calls[i].params.settings) : SessionField[n] = f
                   ELSE currentSession[f] ]
          ELSE currentSession
    /\ UNCHANGED <<serverFeatures, serverOrder, lastWellFormed>>

\* the routes that hand cb itself to client.post
PassThroughCallback(i, err, body) ==
    /\ Arrives(i, err, body)
    /\ calls[i].op \in PassThroughOps
    /\ calls' = Finished(i, err, body, CbVerbatim(err, body))
    /\ UNCHANGED <<currentSession, serverFeatures, serverOrder, lastWellFormed>>

\* new Buffer(body): one octet per element
NewBuffer(body) == [k \in DOMAIN body.bytes |-> body.bytes[k] % 256]

\* the snaptag body sent through the same decoding as the avatar
SnaptagResult_Decoded(err, body) ==
    IF err # NULL THEN CbErr(err)
    ELSE CbBlob("blob", SubSeq(NewBuffer(body), 3, Len(body.bytes)))

\* lines 210-216
SnaptagResult(err, body) ==
    IF err # NULL THEN CbErr(err) ELSE CbBlob("blob", NewBuffer(body))

SnaptagCallback(i, err, body) ==
    /\ Arrives(i, err, body)
    /\ calls[i].op = "downloadSnaptag"
    /\ calls' = Finished(i, err, body, SnaptagResult(err, body))
    /\ UNCHANGED <<currentSession, serverFeatures, serverOrder, lastWellFormed>>

\* lines 248-254: on success the buffer and cb go to SKBlob.decompress
AvatarCallback(i, err, body) ==
    /\ Arrives(i, err, body)
    /\ calls[i].op = "downloadAvatar"
    /\ calls' = IF err # NULL
                THEN Finished(i, err, body, CbErr(err))
                ELSE [calls EXCEPT ![i].stage = "decompressing",
                                   ![i].resp = [err |-> err, body |-> body],
                                   ![i].decompress = @ + 1,
                                   ![i].buffer = NewBuffer(body)]
    /\ UNCHANGED <<currentSession, serverFeatures, serverOrder, lastWellFormed>>

\* SKBlob.decompress(buffer, cb): an archive is unpacked, anything else fails
Decompress(buffer) ==
    IF Len(buffer) >= 2 /\ SubSeq(buffer, 1, 2) = <<80, 75>>
    THEN CbBlob("decompressed", SubSeq(buffer, 3, Len(buffer)))
    ELSE CbErr(DecodeError)

DecompressCallback(i) ==
    /\ i \in DOMAIN calls
    /\ calls[i].stage = "decompressing"
    /\ calls' = [calls EXCEPT ![i].stage = "done",
                              ![i].cbs = Append(@, Decompress(calls[i].buffer))]
    /\ UNCHANGED <<currentSession, serverFeatures, serverOrder, lastWellFormed>>

----------------------------------------------------------------------------
(* The program: every route, small inputs, MaxCalls invocations *)

CachedChoices == { {}, {"frontFacingFlash"} }

Counts == { FromInt(2), FromInt(9) }
Levels == { FromInt(5) }
Requests ==
    { Settings({"replaySnaps"}, {}), Settings({"smartFilters"}, {"frontFacingFlash"}) }

Init ==
    /\ \E on \in CachedChoices :
          /\ currentSession = SessionWith(on)
          /\ serverFeatures = on
    /\ calls = <<>>
    /\ serverOrder = <<>>
    /\ lastWellFormed = currentSession.bestFriendUsernames

Callbacks(i) ==
    \/ \E err \in TransportErrors \cup {NULL}, body \in BestFriendsBodies \cup {NoBody} :
          BestFriendsCallback(i, err, body)
    \/ \E err \in TransportErrors \cup {NULL}, body \in ResponseBodies("") \cup {NoBody} :
          PassThroughCallback(i, err, body)
    \/ \E err \in TransportErrors \cup {NULL}, body \in ByteBodies \cup {NoBody} :
          SnaptagCallback(i, err, body)
    \/ \E err \in TransportErrors \cup {NULL}, body \in ByteBodies \cup {NoBody} :
          AvatarCallback(i, err, body)
    \/ DecompressCallback(i)

Next ==
    \/ \E number \in Counts : UpdateBestFriendsCount(number)
    \/ \E privacy \in Levels : UpdateSnapPrivacy(privacy)
    \/ \E friends \in {NoFriends, Friends(<<"alice", "bob">>)} :
          UpdateStoryPrivacy(FromInt(2), friends)
    \/ UpdateEmail("me@example.com")
    \/ UpdateSearchableByNumber(TRUE)
    \/ UpdateNotificationSoundSetting(FALSE)
    \/ UpdateDisplayName("Me")
    \/ \E settings \in Requests : UpdateFeatureSettings(settings)
    \/ DownloadSnaptag
    \/ UploadAvatar(<<>>)
    \/ DownloadAvatar("alice")
    \/ UpdateTOSAgreementStatus(TRUE, FALSE, TRUE)
    \/ \E i \in 1..MaxCalls : Serve(i)
    \/ \E i \in 1..MaxCalls : Callbacks(i)

Spec == Init /\ [][Next]_vars

----------------------------------------------------------------------------
(* One invocation with the caller's integer drawn from WideInts, which     *)
(* reaches past both ends of the 32-bit range.                             *)

NextClamp ==
    \/ \E number \in WideInts : calls = <<>> /\ UpdateBestFriendsCount(number)
    \/ Serve(1)
    \/ \E err \in TransportErrors \cup {NULL}, body \in BestFriendsBodies \cup {NoBody} :
          BestFriendsCallback(1, err, body)

SpecClamp == Init /\ [][NextClamp]_vars

NextSnapPrivacy ==
    \/ \E privacy \in WideInts : calls = <<>> /\ UpdateSnapPrivacy(privacy)
    \/ Serve(1)
    \/ \E err \in TransportErrors \cup {NULL}, body \in ResponseBodies("") \cup {NoBody} :
          PassThroughCallback(1, err, body)

SpecSnapPrivacy == Init /\ [][NextSnapPrivacy]_vars

(* One updateFeatureSettings invocation: every cached flag state, every    *)
(* settings object that mentions at most MaxReqKeys keys, each true or     *)
(* false, the unrecognized key included.                                   *)

AllRequests ==
    { Settings(on, m \ on) :
        <<m, on>> \in { <<m, on>> \in { mm \in SUBSET SettingsKeys : Cardinality(mm) <= MaxReqKeys }
                                        \X SUBSET SettingsKeys : on \subseteq m } }

InitMerge ==
    /\ \E on \in SUBSET FeatureNames :
          /\ currentSession = SessionWith(on)
          /\ serverFeatures = on
    /\ calls = <<>>
    /\ serverOrder = <<>>
    /\ lastWellFormed = currentSession.bestFriendUsernames

NextMerge ==
    \/ \E settings \in AllRequests : calls = <<>> /\ UpdateFeatureSettings(settings)
    \/ Serve(1)
    \/ \E err \in TransportErrors \cup {NULL}, body \in ResponseBodies("") \cup {NoBody} :
          PassThroughCallback(1, err, body)

SpecFeatureMerge == InitMerge /\ [][NextMerge]_vars

----------------------------------------------------------------------------
(* Properties *)

BestFriendsDone(i) ==
    /\ calls[i].op = "updateBestFriendsCount"
    /\ calls[i].stage # "done"
    /\ calls'[i].stage = "done"

MissingField(body) ==
    body.kind = "json" /\ body.json.t = "object" /\ ~("best_friends" \in body.json.keys)

\* C1: when the transport succeeds and the body is a JSON object without a
\* best_friends field, updateBestFriendsCount reports the parse failure and
\* the cached bestFriendUsernames keeps the value it had before the callback.
C1_MissingFieldIsParseFailure ==
    [][ \A i \in DOMAIN calls :
          ( /\ BestFriendsDone(i)
            /\ calls'[i].resp.err = NULL
            /\ MissingField(calls'[i].resp.body) )
          => /\ calls'[i].cbs = <<CbErr(ParseError)>>
             /\ currentSession'.bestFriendUsernames = currentSession.bestFriendUsernames ]_vars

\* C2: uploadAvatar reports a not-implemented failure through cb, exactly
\* once, never throws, and posts nothing.
C2_UploadReportsThroughCallback ==
    \A i \in DOMAIN calls :
        calls[i].op = "uploadAvatar"
        => /\ calls[i].stage = "done"
           /\ Len(calls[i].cbs) = 1
           /\ calls[i].cbs[1].err # NULL
           /\ calls[i].posts = 0

\* C3: the cached bestFriendUsernames is the best_friends list of the most
\* recently processed successful response that carried one, or the initial
\* value when there has been none.
C3_CacheIsLastWellFormed ==
    currentSession.bestFriendUsernames = lastWellFormed

\* C4: a malformed body on a successful transport yields the parse failure,
\* which is no transport failure, and a transport failure is reported as it
\* came; the cache is unchanged in both cases.
C4_FailuresLeaveCache ==
    [][ \A i \in DOMAIN calls :
          BestFriendsDone(i)
          => /\ ( calls'[i].resp.err = NULL /\ calls'[i].resp.body.kind = "malformed" )
                => /\ calls'[i].cbs = <<CbErr(ParseError)>>
                   /\ ~(ParseError \in TransportErrors)
                   /\ currentSession' = currentSession
             /\ calls'[i].resp.err # NULL
                => /\ calls'[i].cbs = <<CbErr(calls'[i].resp.err)>>
                   /\ currentSession' = currentSession ]_vars

C4_Witness ==
    \E i, j \in DOMAIN calls :
        /\ calls[i].op = "updateBestFriendsCount" /\ calls[i].stage = "done"
        /\ calls[i].resp.err = NULL /\ calls[i].resp.body.kind = "malformed"
        /\ calls[i].cbs = <<CbErr(ParseError)>>
        /\ calls[j].op = "updateBestFriendsCount" /\ calls[j].stage = "done"
        /\ calls[j].resp.err \in TransportErrors
        /\ calls[j].cbs = <<CbErr(calls[j].resp.err)>>

\* C5: the privacySetting sent by updateSnapPrivacy is min(level, 1) for
\* every integer level: at most 1, and a level below 0 is sent as it is.
C5_SentIsMin ==
    \A i \in DOMAIN calls :
        calls[i].op = "updateSnapPrivacy"
        => /\ calls[i].params.privacySetting <= 1
           /\ FromInt(calls[i].params.privacySetting)
                = (IF NumLT(FromInt(1), calls[i].arg) THEN FromInt(1) ELSE calls[i].arg)

C7_ClampSent ==
    \A i \in DOMAIN calls :
        calls[i].op = "updateBestFriendsCount"
        => LET n == calls[i].arg
               sent == calls[i].params.num_best_friends
           IN  /\ sent \in 3..7
               /\ NumLT(n, FromInt(3)) => sent = 3
               /\ NumLT(FromInt(7), n) => sent = 7
               /\ (~NumLT(n, FromInt(3)) /\ ~NumLT(FromInt(7), n)) => FromInt(sent) = n

C7_Witness ==
    \E i \in DOMAIN calls :
        /\ calls[i].op = "updateBestFriendsCount"
        /\ NumLT(Big(1, 0), calls[i].arg)
        /\ calls[i].params.num_best_friends = 7
        /\ calls[i].stage = "done"

\* C8: downloadSnaptag never decompresses and on success reports a blob of
\* exactly the response bytes; downloadAvatar on success decompresses the
\* response bytes before it reports anything and reports what that gave (the
\* decompressed blob or the decode failure, which is no transport failure);
\* on a transport failure neither decompresses and the failure is reported.
C8_BlobPaths ==
    \A i \in DOMAIN calls :
        /\ calls[i].op = "downloadSnaptag"
           => /\ calls[i].decompress = 0
              /\ calls[i].stage = "done"
                 => calls[i].cbs =
                       IF calls[i].resp.err = NULL
                       THEN << [err |-> NULL, kind |-> "blob", body |-> NoBody,
                                bytes |-> calls[i].resp.body.bytes] >>
                       ELSE << CbErr(calls[i].resp.err) >>
        /\ calls[i].op = "downloadAvatar"
           => /\ calls[i].cbs # <<>> /\ calls[i].resp.err = NULL
                 => calls[i].decompress = 1
              /\ calls[i].stage = "decompressing"
                 => calls[i].cbs = <<>> /\ calls[i].buffer = calls[i].resp.body.bytes
              /\ calls[i].stage = "done" /\ calls[i].resp.err = NULL
                 => /\ calls[i].cbs = << Decompress(calls[i].resp.body.bytes) >>
                    /\ \/ calls[i].cbs[1].kind = "decompressed"
                       \/ /\ calls[i].cbs[1].err = DecodeError
                          /\ ~(DecodeError \in TransportErrors)
              /\ calls[i].stage = "done" /\ calls[i].resp.err # NULL
                 => /\ calls[i].decompress = 0
                    /\ calls[i].cbs = << CbErr(calls[i].resp.err) >>

C8_Witness ==
    \E i, j \in DOMAIN calls :
        /\ calls[i].op = "downloadSnaptag" /\ calls[i].stage = "done"
        /\ calls[i].resp.err = NULL
        /\ calls[i].cbs[1].bytes = <<80, 75, 7>>
        /\ calls[j].op = "downloadAvatar" /\ calls[j].stage = "done"
        /\ calls[j].decompress = 1
        /\ calls[j].cbs[1].err = DecodeError

\* C9: the payload of every updateFeatureSettings invocation is its own
\* request OR-ed with the cache and holds nothing of another invocation's
\* request, and the server holds the payload it applied last; so two
\* invocations can both succeed with a flag one of them asked for not set.
C9_IndependentMerge ==
    /\ \A i \in DOMAIN calls :
          calls[i].op = "updateFeatureSettings"
          => \A k \in DOMAIN calls[i].params.settings :
                LET m == calls[i].params.settings[k]
                IN  (m.value = "true")
                       <=> ( \/ m.name \in calls[i].arg.on
                             \/ currentSession[SessionField[m.name]] )
    /\ serverOrder # <<>>
       => LET last == calls[serverOrder[Len(serverOrder)]].params.settings
          IN  serverFeatures =
                 { n \in FeatureNames :
                     \E k \in DOMAIN last : last[k] = [name |-> n, value |-> "true"] }

\* both succeeded, the one issued first was applied last, and what the one
\* issued second asked for is not set
C9_LostUpdate ==
    /\ Len(calls) >= 2
    /\ \A i \in {1, 2} :
          /\ calls[i].op = "updateFeatureSettings"
          /\ calls[i].stage = "done"
          /\ calls[i].resp.err = NULL
    /\ serverOrder = <<2, 1>>
    /\ \E n \in calls[2].arg.on \cap FeatureNames : ~(n \in serverFeatures)

\* C10: no step changes any currentSession field other than
\* bestFriendUsernames, that field changes only in an updateBestFriendsCount
\* callback that reports success, and every route that posts does so exactly
\* once, with no later post.
C10_Frame ==
    [][ /\ \A f \in DOMAIN currentSession \ {"bestFriendUsernames"} :
              currentSession'[f] = currentSession[f]
        /\ currentSession'.bestFriendUsernames # currentSession.bestFriendUsernames
           => \E i \in DOMAIN calls :
                 /\ BestFriendsDone(i)
                 /\ calls'[i].resp.err = NULL
                 /\ calls'[i].cbs = <<CbErr(NULL)>>
        /\ \A i \in DOMAIN calls : calls'[i].posts = calls[i].posts
        /\ \A i \in DOMAIN calls' :
              calls'[i].posts = IF calls'[i].op \in {"uploadAvatar", "updateDisplayName"}
                                THEN 0 ELSE 1 ]_vars

C10_Witness ==
    \E i, j \in DOMAIN calls :
        /\ calls[i].op = "updateFeatureSettings" /\ calls[i].stage = "done"
        /\ calls[i].resp.err = NULL
        /\ "replaySnaps" \in serverFeatures
        /\ ~currentSession.enableReplaySnaps
        /\ calls[j].op = "updateBestFriendsCount" /\ calls[j].stage = "done"
        /\ calls[j].cbs = <<CbErr(NULL)>>
        /\ currentSession.bestFriendUsernames = Arr(<<"z", "x">>)

====
